---- MODULE Spec2Model ----
(***************************************************************************)
(* Driver fatigue dashboard (fatigue_project): the scoring formula and the *)
(* risk bands of model.py / utils.py, and the session record table of      *)
(* streamlit_app.py, one script run per action.                            *)
(*                                                                         *)
(* Numbers.  Python floats are written in fixed point, in thousandths:     *)
(* 7000 is 7.0 hours, 2500 is the score 2.5, the weight 1.5 is 1500.  A    *)
(* product a*b is (a*b) \div 1000; every input value used below is a       *)
(* multiple of 250, for which the products of the formula are exact.       *)
(* The rounding of binary floats is not modelled: the properties below     *)
(* compare one computed score with the thresholds, or with the same        *)
(* formula applied again, and float addition and multiplication are        *)
(* monotone, so none of them turns on it.                                  *)
(* Confidence is a probability in thousandths.  Age is in years.           *)
(***************************************************************************)
EXTENDS Integers, Sequences, FiniteSets

VARIABLES
    driver_records, \* st.session_state.driver_records of every session holding the key
    page,           \* the sidebar radio of every session
    model_cache,    \* what st.cache_resource holds for get_model (shared by all sessions)
    now,            \* the wall clock, in seconds
    event,          \* the widget that triggered the last script run, and its session
    row,            \* ScoreSpec: the values in the Add Driver form
    assessment      \* ScoreSpec: what the pages computed for the last assessed row

vars == <<driver_records, page, model_cache, now, event, row, assessment>>

(***************************************************************************)
(* Bounds                                                                  *)
(***************************************************************************)
\* Submissions happen at seconds 1..MaxClock, one per second.
MaxClock == 3

Sessions == {"s1", "s2"}

(***************************************************************************)
(* model.py                                                                *)
(***************************************************************************)
max(a, b) == IF a >= b THEN a ELSE b

TimesOfDay == {"Morning", "Afternoon", "Night"}

\* The scoring formula, term by term in the order the code adds them.
weighted_fatigue_score_sleep_reversed(r) ==
    LET s0 == 0
        s1 == s0 + (max(0, r.Sleep_Hours - 8000) * 1500) \div 1000
        s2 == s1 + (max(0, r.Driving_Hours - 6000) * 1200) \div 1000
        s3 == s2 + (IF r.Caffeine_Cups >= 2000 THEN 0 ELSE 1000)
        s4 == s3 + (max(0, 20000 - r.Rest_Breaks) * 100) \div 1000
        s5 == s4 + (IF r.Stress_Level > 5000
                    THEN ((r.Stress_Level - 5000) * 500) \div 1000 ELSE 0)
    IN  IF r.Time_of_Day = "Night" THEN s5 + 1000 ELSE s5

weighted_fatigue_score_caffeine_inclusive(r) ==
    LET s0 == 0
        s1 == s0 + (max(0, 8000 - r.Sleep_Hours) * 1500) \div 1000
        s2 == s1 + (max(0, r.Driving_Hours - 6000) * 1200) \div 1000
        s3 == s2 + (IF r.Caffeine_Cups > 0 THEN 0 ELSE 1000)
        s4 == s3 + (max(0, 20000 - r.Rest_Breaks) * 100) \div 1000
        s5 == s4 + (IF r.Stress_Level > 5000
                    THEN ((r.Stress_Level - 5000) * 500) \div 1000 ELSE 0)
    IN  IF r.Time_of_Day = "Night" THEN s5 + 1000 ELSE s5

weighted_fatigue_score(r) ==
    LET s0 == 0
        s1 == s0 + (max(0, 8000 - r.Sleep_Hours) * 1500) \div 1000
        s2 == s1 + (max(0, r.Driving_Hours - 6000) * 1200) \div 1000
        s3 == s2 + (IF r.Caffeine_Cups >= 2000 THEN 0 ELSE 1000)
        s4 == s3 + (max(0, 20000 - r.Rest_Breaks) * 100) \div 1000
        s5 == s4 + (IF r.Stress_Level > 5000
                    THEN ((r.Stress_Level - 5000) * 500) \div 1000 ELSE 0)
    IN  IF r.Time_of_Day = "Night" THEN s5 + 1000 ELSE s5

\* train_model's label of a synthetic row, from its score.
Driver_Status(x) == IF x >= 5000 THEN "Fatigued" ELSE "Alert"

\* What train_model returns: the forest, scaler and encoder fitted on the
\* synthetic data of seed 42.  The fit is scikit-learn's; the model keeps it
\* as one opaque value.
train_model == [n_estimators |-> 300, random_state |-> 42, seed |-> 42]

NotTrained == [n_estimators |-> 0, random_state |-> 0, seed |-> 0]

\* model.predict / model.predict_proba on one scaled row.  The forest's vote
\* is not derivable from this repository's code: the label is either class,
\* the confidence the winning class's share of the votes (at least a half).
ClassifierOutputs ==
    { [pred |-> "Alert", confidence |-> 600],
      [pred |-> "Fatigued", confidence |-> 1000] }

\* predict_status: the classifier's label and confidence (vote), and the
\* formula score recomputed from the input.
predict_status_score_from_vote(m, input_data, vote) ==
    [pred |-> vote.pred, confidence |-> vote.confidence,
     score |-> IF vote.pred = "Fatigued" THEN 5000 ELSE 0]

predict_status_score_accumulates(m, input_data, vote) ==
    [pred |-> vote.pred, confidence |-> vote.confidence,
     score |-> weighted_fatigue_score(input_data) + 1000 * now]

predict_status(m, input_data, vote) ==
    [pred |-> vote.pred, confidence |-> vote.confidence,
     score |-> weighted_fatigue_score(input_data)]

(***************************************************************************)
(* utils.py                                                                *)
(***************************************************************************)
get_risk_color_boundary_low(score) ==
    IF score <= 3000 THEN "#10b981"
    ELSE IF score <= 5000 THEN "#f59e0b"
    ELSE "#ef4444"

get_risk_color(score) ==
    IF score < 3000 THEN "#10b981"
    ELSE IF score < 5000 THEN "#f59e0b"
    ELSE "#ef4444"

get_risk_level(score) ==
    IF score < 3000 THEN "Low Risk"
    ELSE IF score < 5000 THEN "Moderate Risk"
    ELSE "High Risk"

\* The message is kept by its leading word.
get_action_message(score) ==
    IF score < 3000 THEN "SAFE"
    ELSE IF score < 5000 THEN "CAUTION"
    ELSE "DANGER"

\* create_gauge_chart: the colour of the gauge's bar.
create_gauge_chart(score) == [value |-> score, bar |-> get_risk_color(score)]

(***************************************************************************)
(* pandas: the record table                                                *)
(***************************************************************************)
\* A table is its column names in order and its rows in order; a row maps
\* every column name to a cell.
Range(seq) == {seq[i] : i \in 1..Len(seq)}

\* A missing cell (NaN; NaT in a datetime column).
NaT == -1

\* The columns of the table created at session initialisation.
DeclaredColumns ==
    <<"Timestamp", "Name", "Sleep_Hours", "Driving_Hours", "Caffeine_Cups",
      "Rest_Breaks", "Age", "Stress_Level", "Time_of_Day",
      "Fatigue_Score", "Prediction", "Confidence">>

\* The keys of the record an assessment builds, in the order the dict has them.
RecordKeys ==
    <<"Name", "Sleep_Hours", "Driving_Hours", "Caffeine_Cups", "Rest_Breaks",
      "Age", "Stress_Level", "Time_of_Day",
      "Timestamp", "Fatigue_Score", "Prediction", "Confidence">>

EmptyTable == [columns |-> DeclaredColumns, rows |-> <<>>]

\* datetime.now().isoformat(sep=' ', timespec='seconds'): a string.
isoformat(t) == [iso |-> t]

\* pd.to_datetime of such a string: the instant it names.
to_datetime(ts) == ts.iso

\* pd.concat([t, pd.DataFrame([record])], ignore_index=True): the union of the
\* columns, t's first; the rows of t then the record; missing cells are NaN.
pd_concat_record_first(t, record) ==
    LET Fresh(c) == c \notin Range(t.columns)
        cols == t.columns \o SelectSeq(RecordKeys, Fresh)
        Fill(r) == [c \in Range(cols) |-> IF c \in DOMAIN r THEN r[c] ELSE NaT]
    IN  [columns |-> cols,
         rows |-> <<Fill(record)>> \o [i \in 1..Len(t.rows) |-> Fill(t.rows[i])]]

pd_concat(t, record) ==
    LET Fresh(c) == c \notin Range(t.columns)
        cols == t.columns \o SelectSeq(RecordKeys, Fresh)
        Fill(r) == [c \in Range(cols) |-> IF c \in DOMAIN r THEN r[c] ELSE NaT]
    IN  [columns |-> cols,
         rows |-> [i \in 1..Len(t.rows) |-> Fill(t.rows[i])] \o <<Fill(record)>>]

\* records[c] = cells: the column is overwritten where it exists and added
\* at the end where it does not; the table object itself is changed.
set_column(t, c, cells) ==
    [columns |-> IF c \in Range(t.columns) THEN t.columns ELSE Append(t.columns, c),
     rows |-> [i \in 1..Len(t.rows) |->
                 [k \in (DOMAIN t.rows[i]) \cup {c} |->
                     IF k = c THEN cells[i] ELSE t.rows[i][k]]]]

\* df.iloc[:-1]
iloc_drop_first(t) ==
    [columns |-> t.columns, rows |-> SubSeq(t.rows, 2, Len(t.rows))]

iloc_drop_last(t) ==
    [columns |-> t.columns, rows |-> SubSeq(t.rows, 1, Len(t.rows) - 1)]

\* pd.DataFrame(columns=t.columns)
empty_like(t) == [columns |-> t.columns, rows |-> <<>>]

\* df.to_csv(index=False): the header line, then one line per row, cells in
\* column order.
to_csv(t) ==
    <<t.columns>> \o
    [i \in 1..Len(t.rows) |-> [j \in 1..Len(t.columns) |-> t.rows[i][t.columns[j]]]]

\* create_timeline_chart(records): the figure (None for an empty table), and
\* the table object it was given as the call leaves it.
create_timeline_chart(records) ==
    IF records.rows = <<>>
    THEN [fig |-> "None", records |-> records]
    ELSE [fig |-> "Figure",
          records |-> set_column(records, "Timestamp_dt",
                         [i \in 1..Len(records.rows) |->
                             to_datetime(records.rows[i].Timestamp)])]

(***************************************************************************)
(* streamlit_app.py: one action per script run                             *)
(***************************************************************************)
Pages == {"Dashboard", "Add Driver", "Analytics", "Records", "About"}

\* The values the Add Driver form opens with.
FormDefaults ==
    [Name |-> "Driver 1", Sleep_Hours |-> 7000, Driving_Hours |-> 5000,
     Caffeine_Cups |-> 1000, Rest_Breaks |-> 30000, Age |-> 35,
     Stress_Level |-> 4000, Time_of_Day |-> "Morning"]

\* The rows submitted in Spec: the defaults (score 2.5) and a driver at the
\* 5.0 threshold.
InputRows ==
    { FormDefaults,
      [Name |-> "Driver 2", Sleep_Hours |-> 6000, Driving_Hours |-> 6000,
       Caffeine_Cups |-> 500, Rest_Breaks |-> 20000, Age |-> 52,
       Stress_Level |-> 5000, Time_of_Day |-> "Night"] }

\* Session state initialisation: the table is created only where the
\* session does not hold it yet.
session_records(s) ==
    IF s \in DOMAIN driver_records THEN driver_records[s] ELSE EmptyTable

\* st.session_state.driver_records = t, in session s.
store_records_global(s, t) ==
    [x \in (DOMAIN driver_records) \cup {s} |-> t]

store_records(s, t) ==
    [x \in (DOMAIN driver_records) \cup {s} |-> IF x = s THEN t ELSE driver_records[x]]

\* get_model under st.cache_resource: trained on the first call, the cached
\* value after it.
get_model == IF model_cache = NotTrained THEN train_model ELSE model_cache

\* The body of page p run with no button pressed, on the session's table t:
\* the table the run leaves in the session.
render_page(p, t) ==
    IF p = "Dashboard"
    THEN IF t.rows = <<>> THEN t ELSE create_timeline_chart(t).records
    ELSE IF p = "Analytics"
    THEN IF t.rows = <<>> THEN t
         ELSE LET df == t   \* .copy(): the chart is drawn from a fresh object
                  fig == create_timeline_chart(df).fig
              IN  t
    ELSE t

\* A browser connects: the first script run of session s, on the radio's
\* first option.
Connect(s) ==
    /\ s \notin DOMAIN driver_records
    /\ driver_records' = store_records(s, render_page("Dashboard", session_records(s)))
    /\ page' = [page EXCEPT ![s] = "Dashboard"]
    /\ model_cache' = get_model
    /\ event' = [session |-> s, widget |-> "connect"]
    /\ UNCHANGED <<now, row, assessment>>

\* The sidebar radio is set to p (or any widget that is no button reruns the
\* script on the page shown).
SelectPage(s, p) ==
    /\ s \in DOMAIN driver_records
    /\ page' = [page EXCEPT ![s] = p]
    /\ driver_records' = store_records(s, render_page(p, session_records(s)))
    /\ model_cache' = get_model
    /\ event' = [session |-> s, widget |-> "radio"]
    /\ UNCHANGED <<now, row, assessment>>

\* The record an assessment stores.
build_record(input_data, result, t) ==
    [Name |-> input_data.Name, Sleep_Hours |-> input_data.Sleep_Hours,
     Driving_Hours |-> input_data.Driving_Hours,
     Caffeine_Cups |-> input_data.Caffeine_Cups,
     Rest_Breaks |-> input_data.Rest_Breaks, Age |-> input_data.Age,
     Stress_Level |-> input_data.Stress_Level,
     Time_of_Day |-> input_data.Time_of_Day,
     Timestamp |-> isoformat(t), Fatigue_Score |-> result.score,
     Prediction |-> result.pred, Confidence |-> result.confidence]

\* "Assess Driver" is pressed on the Add Driver form.
AssessDriver(s, input_data, vote) ==
    /\ s \in DOMAIN driver_records
    /\ page[s] = "Add Driver"
    /\ now < MaxClock
    /\ now' = now + 1
    /\ model_cache' = get_model
    /\ LET result == predict_status(get_model, input_data, vote)
           record == build_record(input_data, result, now')
       IN  driver_records' = store_records(s, pd_concat(session_records(s), record))
    /\ event' = [session |-> s, widget |-> "Assess Driver", input |-> input_data]
    /\ UNCHANGED <<page, row, assessment>>

\* "Download CSV" is pressed on the Records page.
DownloadCSV(s) ==
    /\ s \in DOMAIN driver_records
    /\ page[s] = "Records"
    /\ session_records(s).rows # <<>>
    /\ driver_records' = store_records(s, render_page("Records", session_records(s)))
    /\ model_cache' = get_model
    /\ event' = [session |-> s, widget |-> "Download CSV"]
    /\ UNCHANGED <<page, now, row, assessment>>

\* "Clear All Records" is pressed on the Records page; the script reruns.
ClearAllRecords(s) ==
    /\ s \in DOMAIN driver_records
    /\ page[s] = "Records"
    /\ session_records(s).rows # <<>>
    /\ driver_records' =
           store_records(s, render_page("Records", empty_like(session_records(s))))
    /\ model_cache' = get_model
    /\ event' = [session |-> s, widget |-> "Clear All Records"]
    /\ UNCHANGED <<page, now, row, assessment>>

\* "Remove Last Entry" is pressed on the Records page; the script reruns.
RemoveLastEntry(s) ==
    /\ s \in DOMAIN driver_records
    /\ page[s] = "Records"
    /\ session_records(s).rows # <<>>
    /\ driver_records' =
           store_records(s, render_page("Records", iloc_drop_last(session_records(s))))
    /\ model_cache' = get_model
    /\ event' = [session |-> s, widget |-> "Remove Last Entry"]
    /\ UNCHANGED <<page, now, row, assessment>>

\* The browser tab is closed: the session's state is dropped.
Disconnect(s) ==
    /\ s \in DOMAIN driver_records
    /\ driver_records' = [x \in (DOMAIN driver_records) \ {s} |-> driver_records[x]]
    /\ page' = [page EXCEPT ![s] = "Dashboard"]
    /\ event' = [session |-> s, widget |-> "disconnect"]
    /\ UNCHANGED <<model_cache, now, row, assessment>>

(***************************************************************************)
(* The Add Driver form and what the pages show for one assessment          *)
(***************************************************************************)
NoAssessment == [assessed |-> FALSE]

\* Values a user may give each scoring field of the form (Name and Age stay
\* as the form opens).
FieldValues ==
    [Sleep_Hours   |-> {6000, 7000, 7500, 8000, 9000},
     Driving_Hours |-> {5000, 6000, 6250, 7000, 8500},
     Caffeine_Cups |-> {1000, 2000, 2500},
     Rest_Breaks   |-> {0, 15000, 30000},
     Stress_Level  |-> {4000, 5000, 7000},
     Time_of_Day   |-> TimesOfDay]

\* The Assessment Summary of the Add Driver page.
assessment_summary(score) ==
    [level |-> get_risk_level(score),
     gauge |-> create_gauge_chart(score),
     message |-> get_action_message(score),
     banner |-> IF score < 3000 THEN "success"
                ELSE IF score < 5000 THEN "warning" ELSE "error"]

\* The Latest Driver Snapshot of the Dashboard page, for the last record.
latest_snapshot(last) ==
    LET score == last.Fatigue_Score
    IN  [shown |-> TRUE, status |-> last.Prediction,
         gauge |-> create_gauge_chart(score),
         message |-> get_action_message(score),
         banner |-> IF score < 3000 THEN "success"
                    ELSE IF score < 5000 THEN "warning" ELSE "error"]

NoSnapshot == [shown |-> FALSE]

\* The user changes one field of the form; nothing is assessed until the
\* form is submitted.
EditField(f, v) ==
    /\ v # row[f]
    /\ row' = [row EXCEPT ![f] = v]
    /\ assessment' = NoAssessment
    /\ UNCHANGED <<driver_records, page, model_cache, now, event>>

\* The form is submitted: the record built from it and the summary shown.
AssessRow(vote) ==
    /\ ~assessment.assessed
    /\ LET result == predict_status(get_model, row, vote)
       IN  assessment' = [assessed |-> TRUE,
                          record |-> build_record(row, result, now),
                          summary |-> assessment_summary(result.score),
                          snapshot |-> NoSnapshot]
    /\ model_cache' = get_model
    /\ UNCHANGED <<driver_records, page, now, event, row>>

\* The Dashboard is opened with that record the last of the table.
ShowSnapshot ==
    /\ assessment.assessed
    /\ ~assessment.snapshot.shown
    /\ assessment' = [assessment EXCEPT !.snapshot = latest_snapshot(assessment.record)]
    /\ UNCHANGED <<driver_records, page, model_cache, now, event, row>>

ScoreNext ==
    \/ \E f \in DOMAIN FieldValues : \E v \in FieldValues[f] : EditField(f, v)
    \/ \E vote \in ClassifierOutputs : AssessRow(vote)
    \/ ShowSnapshot

Init ==
    /\ driver_records = [s \in {} |-> EmptyTable]
    /\ page = [s \in Sessions |-> "Dashboard"]
    /\ model_cache = NotTrained
    /\ now = 0
    /\ event = [session |-> "none", widget |-> "none"]
    /\ row = FormDefaults
    /\ assessment = NoAssessment

\* The script runs of the sessions S, the form submitted with a row of Rows.
Run(S, Rows) ==
    \E s \in S :
        \/ Connect(s)
        \/ \E p \in Pages : SelectPage(s, p)
        \/ \E input_data \in Rows, vote \in ClassifierOutputs :
               AssessDriver(s, input_data, vote)
        \/ DownloadCSV(s)
        \/ ClearAllRecords(s)
        \/ RemoveLastEntry(s)
        \/ Disconnect(s)

\* One user.
Next == Run({"s1"}, InputRows)

Spec == Init /\ [][Next]_vars

\* Several users at once, their script runs interleaved, each submitting the
\* form as it opens.
SessionsNext == Run(Sessions, {FormDefaults})

SessionsSpec == Init /\ [][SessionsNext]_vars

\* The scoring functions over the values of FieldValues.
ScoreSpec == Init /\ [][ScoreNext]_vars

(***************************************************************************)
(* Properties                                                              *)
(***************************************************************************)
InputFields ==
    {"Name", "Sleep_Hours", "Driving_Hours", "Caffeine_Cups", "Rest_Breaks",
     "Age", "Stress_Level", "Time_of_Day"}

\* The input fields of a stored record.
InputOf(r) == [f \in InputFields |-> r[f]]

\* The rows session s holds in the tables f (none without a table).
RowsOf(f, s) == IF s \in DOMAIN f THEN f[s].rows ELSE <<>>

\* The step just taken was triggered by widget w in session s.
Pressed(s, w) == event'.session = s /\ event'.widget = w

\* C1: with the other fields fixed, the score does not decrease when
\* Driving_Hours grows (above 6 in particular) and does not increase when
\* Sleep_Hours grows: checked for the assessed row against every row that
\* differs from it in that one field.
C1_ScoreMonotonic ==
    assessment.assessed =>
        LET rec == assessment.record
            input == InputOf(rec)
        IN  /\ \A d \in FieldValues.Driving_Hours :
                   d >= rec.Driving_Hours =>
                       weighted_fatigue_score([input EXCEPT !.Driving_Hours = d])
                           >= rec.Fatigue_Score
            /\ \A h \in FieldValues.Sleep_Hours :
                   h >= rec.Sleep_Hours =>
                       weighted_fatigue_score([input EXCEPT !.Sleep_Hours = h])
                           <= rec.Fatigue_Score

\* A row driving 7 h on 7 h of sleep was assessed: more driving scores
\* strictly higher, more sleep strictly lower.
C1_Witness ==
    /\ assessment.assessed
    /\ assessment.record.Driving_Hours = 7000
    /\ assessment.record.Sleep_Hours = 7000
    /\ weighted_fatigue_score([InputOf(assessment.record) EXCEPT !.Driving_Hours = 8500])
           > assessment.record.Fatigue_Score
    /\ weighted_fatigue_score([InputOf(assessment.record) EXCEPT !.Sleep_Hours = 7500])
           < assessment.record.Fatigue_Score

\* The six penalty terms as the specification words them.
C3_Terms(r) ==
    <<IF r.Sleep_Hours < 8000 THEN ((8000 - r.Sleep_Hours) * 15) \div 10 ELSE 0,
      IF r.Driving_Hours > 6000 THEN ((r.Driving_Hours - 6000) * 12) \div 10 ELSE 0,
      IF r.Caffeine_Cups < 2000 THEN 1000 ELSE 0,
      IF r.Rest_Breaks < 20000 THEN (20000 - r.Rest_Breaks) \div 10 ELSE 0,
      IF r.Stress_Level > 5000 THEN (r.Stress_Level - 5000) \div 2 ELSE 0,
      IF r.Time_of_Day = "Night" THEN 1000 ELSE 0>>

\* C3: the assessed score is the sum of the six penalty terms, and the form
\* defaults (sleep 7, driving 5, caffeine 1, rest 30, stress 4, Morning)
\* score 1.5 + 0 + 1.0 + 0 + 0 + 0 = 2.5, shown as "Low Risk".
C3_ScoreIsSumOfTerms ==
    assessment.assessed =>
        LET rec == assessment.record
            t == C3_Terms(rec)
        IN  /\ rec.Fatigue_Score = t[1] + t[2] + t[3] + t[4] + t[5] + t[6]
            /\ InputOf(rec) = FormDefaults =>
                   /\ t = <<1500, 0, 1000, 0, 0, 0>>
                   /\ rec.Fatigue_Score = 2500
                   /\ get_risk_level(rec.Fatigue_Score) = "Low Risk"
                   /\ assessment.summary.level = "Low Risk"

\* The form was submitted as it opens.
C3_Witness ==
    /\ assessment.assessed
    /\ InputOf(assessment.record) = FormDefaults
    /\ assessment.record.Fatigue_Score = 2500

\* C4: an "Assess Driver" submission appends exactly one record at the end of
\* the session's table, holding the submitted input fields and a Timestamp,
\* Fatigue_Score, Prediction and Confidence; the records stored before keep
\* their cells and order; a run that is no submission adds no record.
C4_SubmitAppendsOneRecord ==
    [][\A s \in Sessions :
          LET before == RowsOf(driver_records, s)
              after == RowsOf(driver_records', s)
          IN  IF Pressed(s, "Assess Driver")
              THEN /\ Len(after) = Len(before) + 1
                   /\ SubSeq(after, 1, Len(before)) = before
                   /\ Range(RecordKeys) \subseteq DOMAIN after[Len(after)]
                   /\ InputOf(after[Len(after)]) = event'.input
                   /\ after[Len(after)].Timestamp = isoformat(now')
                   /\ after[Len(after)].Prediction \in {"Alert", "Fatigued"}
              ELSE Len(after) <= Len(before)]_vars

\* A third record was just appended to two stored ones.
C4_Witness ==
    /\ event.widget = "Assess Driver"
    /\ Len(RowsOf(driver_records, event.session)) = 3

\* C5: every stored record's Fatigue_Score is weighted_fatigue_score of that
\* record's own input fields, whatever label and confidence the classifier
\* gave it and whatever was added, removed or cleared since.
C5_StoredScoreIsFormulaScore ==
    \A s \in DOMAIN driver_records :
        \A i \in 1..Len(driver_records[s].rows) :
            LET r == driver_records[s].rows[i]
            IN  r.Fatigue_Score = weighted_fatigue_score(InputOf(r))

\* After a removal the table holds a record the classifier called Alert with
\* a score of 5.0 and one it called Fatigued with a score of 2.5.
C5_Witness ==
    /\ event.widget = "Remove Last Entry"
    /\ \E i, j \in 1..Len(RowsOf(driver_records, "s1")) :
           LET ri == driver_records["s1"].rows[i]
               rj == driver_records["s1"].rows[j]
           IN  /\ ri.Prediction = "Alert" /\ ri.Fatigue_Score = 5000
               /\ rj.Prediction = "Fatigued" /\ rj.Fatigue_Score = 2500

\* C6: two assessments of identical input rows store identical scores,
\* whenever they were made and whatever the table held at the time.
C6_SameInputSameScore ==
    \A s \in DOMAIN driver_records :
        \A i, j \in 1..Len(driver_records[s].rows) :
            LET ri == driver_records[s].rows[i]
                rj == driver_records[s].rows[j]
            IN  InputOf(ri) = InputOf(rj) => ri.Fatigue_Score = rj.Fatigue_Score

\* The same row was assessed at seconds 1 and 3, on tables of different
\* sizes (the record of second 2 was stored and removed in between), with
\* different labels.
C6_Witness ==
    /\ Len(RowsOf(driver_records, "s1")) = 2
    /\ LET r1 == driver_records["s1"].rows[1]
           r2 == driver_records["s1"].rows[2]
       IN  /\ InputOf(r1) = InputOf(r2)
           /\ r1.Timestamp = isoformat(1)
           /\ r2.Timestamp = isoformat(3)
           /\ r1.Prediction # r2.Prediction

\* C7: a session that connects starts with the empty table; a script run of
\* one session leaves every other session's table as it was; the trained
\* model, once cached, never changes.
C7_SessionsIsolated ==
    [][/\ \A s \in Sessions :
              /\ (s \notin DOMAIN driver_records /\ s \in DOMAIN driver_records')
                     => driver_records'[s] = EmptyTable
              /\ event'.session # s =>
                     /\ (s \in DOMAIN driver_records') = (s \in DOMAIN driver_records)
                     /\ s \in DOMAIN driver_records =>
                            driver_records'[s] = driver_records[s]
       /\ model_cache # NotTrained => model_cache' = model_cache]_vars

\* Session s2 has just submitted while s1 holds a record of its own.
C7_Witness ==
    /\ event.session = "s2"
    /\ event.widget = "Assess Driver"
    /\ Len(RowsOf(driver_records, "s1")) = 1
    /\ Len(RowsOf(driver_records, "s2")) = 2

\* C8: a run with no button pressed leaves the session's table as it was,
\* and the table, with its CSV export, always has exactly the twelve columns
\* declared at session initialisation.
C8_ViewsKeepDeclaredColumns ==
    /\ [](\A s \in DOMAIN driver_records :
             /\ driver_records[s].columns = DeclaredColumns
             /\ to_csv(driver_records[s])[1] = DeclaredColumns)
    /\ [][\A s \in DOMAIN driver_records :
             Pressed(s, "radio") => /\ s \in DOMAIN driver_records'
                                    /\ driver_records'[s] = driver_records[s]]_vars

\* C9: Remove Last Entry drops exactly the last record and keeps the others
\* in order; Clear All Records leaves none; both act only on a non-empty
\* table; and removing right after an assessment gives back the table as it
\* was before the assessment.
C9_TableIsStack ==
    /\ [][\A s \in Sessions :
             LET before == RowsOf(driver_records, s)
                 after == RowsOf(driver_records', s)
             IN  /\ Pressed(s, "Remove Last Entry") =>
                        /\ before # <<>>
                        /\ after = SubSeq(before, 1, Len(before) - 1)
                 /\ Pressed(s, "Clear All Records") =>
                        /\ before # <<>>
                        /\ after = <<>>]_vars
    /\ [](\A s \in DOMAIN driver_records :
             \A input_data \in InputRows, vote \in ClassifierOutputs :
                 LET t == driver_records[s]
                     result == predict_status(get_model, input_data, vote)
                     added == pd_concat(t, build_record(input_data, result, now + 1))
                 IN  iloc_drop_last(render_page("Records", added)) = t)

\* The last of three records was just removed.
C9_Witness ==
    /\ event.widget = "Remove Last Entry"
    /\ Len(RowsOf(driver_records, event.session)) = 2

\* C10: the risk level, the gauge colour, the action message and the banner
\* of both pages put a score in the same band: below 3 low, from 3 to below
\* 5 moderate, from 5 high; and the high band is the scores training labels
\* "Fatigued".
C10_Band(x) == IF x < 3000 THEN 1 ELSE IF x < 5000 THEN 2 ELSE 3

C10_BandsAgree ==
    assessment.assessed =>
        LET x == assessment.record.Fatigue_Score
            b == C10_Band(x)
            sum == assessment.summary
            snap == assessment.snapshot
        IN  /\ sum.level = <<"Low Risk", "Moderate Risk", "High Risk">>[b]
            /\ sum.gauge.bar = <<"#10b981", "#f59e0b", "#ef4444">>[b]
            /\ get_risk_color(x) = sum.gauge.bar
            /\ sum.message = <<"SAFE", "CAUTION", "DANGER">>[b]
            /\ sum.banner = <<"success", "warning", "error">>[b]
            /\ snap.shown =>
                   /\ snap.gauge.bar = sum.gauge.bar
                   /\ snap.message = sum.message
                   /\ snap.banner = sum.banner
            /\ (b = 3) = (Driver_Status(x) = "Fatigued")

\* A score of exactly 5.0 was assessed and shown on the Dashboard.
C10_Witness ==
    /\ assessment.assessed
    /\ assessment.record.Fatigue_Score = 5000
    /\ assessment.snapshot.shown

====
